---- MODULE Spec2Model ----
(***************************************************************************)
(* Model of aurora_tabular_modeller/main.py: the AuroraTabularModeller     *)
(* window (load_bim_file, load_tree, add_sublevel, on_tree_item_click,     *)
(* get_json_path, update_model_value, save_bim_file) and main().           *)
(*                                                                         *)
(* A Python str is a sequence of one-character strings, so that            *)
(* str.split, str.strip, str.isdigit and int() are computed as Python      *)
(* computes them.  A JSON value is a tagged record [t, v]; a dict is the   *)
(* ordered sequence of its <<key, value>> pairs.                           *)
(***************************************************************************)
EXTENDS Integers, Sequences, FiniteSets, TLC

\* ------------------------------------------------------------------ bounds
MaxCommits == 1

Last(seq) == seq[Len(seq)]

\* ------------------------------------------------------- Python str model
Digits == <<"0", "1", "2", "3", "4", "5", "6", "7", "8", "9">>

IsDigitChar(c) == \E i \in 1..10 : Digits[i] = c

DigitVal(c) == (CHOOSE i \in 1..10 : Digits[i] = c) - 1

Sep == <<":", " ">>

\* text.find(sep) + 1: first position where sep occurs in text, 0 if none
Find(text, sep) ==
    LET hits == {i \in 1..(Len(text) - Len(sep) + 1) :
                    SubSeq(text, i, i + Len(sep) - 1) = sep}
    IN IF hits = {} THEN 0 ELSE CHOOSE i \in hits : \A j \in hits : i <= j

\* ": " in text
HasSep(text) == Find(text, Sep) # 0

\* text.split(": ")[0]
SplitHead(text) ==
    IF HasSep(text) THEN SubSeq(text, 1, Find(text, Sep) - 1) ELSE text

\* the second part of text.split(": ", 1), for a text that has the separator
SplitRest(text) == SubSeq(text, Find(text, Sep) + 2, Len(text))

RECURSIVE LStrip(_)
LStrip(text) ==
    IF text # <<>> /\ Head(text) = " " THEN LStrip(Tail(text)) ELSE text

RECURSIVE RStrip(_)
RStrip(text) ==
    IF text # <<>> /\ text[Len(text)] = " "
    THEN RStrip(SubSeq(text, 1, Len(text) - 1)) ELSE text

\* text.strip()
Strip(text) == RStrip(LStrip(text))

\* text.isdigit()
IsDigit(text) == text # <<>> /\ \A i \in 1..Len(text) : IsDigitChar(text[i])

RECURSIVE DigitsVal(_)
DigitsVal(ds) ==
    IF ds = <<>> THEN 0
    ELSE 10 * DigitsVal(SubSeq(ds, 1, Len(ds) - 1)) + DigitVal(ds[Len(ds)])

\* the digits of int(text) once whitespace and sign are removed
IntBody(text) ==
    LET s == Strip(text)
    IN IF s # <<>> /\ (Head(s) = "-" \/ Head(s) = "+") THEN Tail(s) ELSE s

\* int(text) does not raise ValueError
IntParses(text) == IsDigit(IntBody(text))

\* int(text)
IntOf(text) ==
    LET s == Strip(text)
    IN IF Head(s) = "-" THEN 0 - DigitsVal(IntBody(text))
       ELSE DigitsVal(IntBody(text))

RECURSIVE NatStr(_)
NatStr(n) ==
    IF n < 10 THEN <<Digits[n + 1]>>
    ELSE NatStr(n \div 10) \o <<Digits[(n % 10) + 1]>>

\* str(n) for an int n
IntStr(n) == IF n < 0 THEN <<"-">> \o NatStr(0 - n) ELSE NatStr(n)

\* ------------------------------------------------- Python / JSON values
PStr(s) == [t |-> "str", v |-> s]
PInt(n) == [t |-> "int", v |-> n]
PBool(b) == [t |-> "bool", v |-> b]
PNone == [t |-> "none", v |-> 0]
PList(items) == [t |-> "list", v |-> items]
PDict(pairs) == [t |-> "dict", v |-> pairs]

\* key in d, for a dict d
DictHas(d, key) == \E i \in 1..Len(d.v) : d.v[i][1] = key

DictIndex(d, key) == CHOOSE i \in 1..Len(d.v) : d.v[i][1] = key

\* d[key], for a dict d that has the key
DictGet(d, key) == d.v[DictIndex(d, key)][2]

\* d.get(key, default)
DictGetOr(d, key, default) == IF DictHas(d, key) THEN DictGet(d, key) ELSE default

\* d[key] = val, for a dict d that has the key (the key keeps its position)
DictSet(d, key, val) ==
    PDict([d.v EXCEPT ![DictIndex(d, key)] = <<key, val>>])

RECURSIVE JoinSeq(_, _)
JoinSeq(parts, sep) ==
    IF parts = <<>> THEN <<>>
    ELSE IF Len(parts) = 1 THEN parts[1]
    ELSE parts[1] \o sep \o JoinSeq(Tail(parts), sep)

\* repr(v) and str(v); the two differ on a str only
RECURSIVE PyRepr(_)
RECURSIVE PyStr(_)
PyRepr(val) ==
    IF val.t = "str" THEN <<"'">> \o val.v \o <<"'">> ELSE PyStr(val)

PyStr(val) ==
    CASE val.t = "str" -> val.v
      [] val.t = "int" -> IntStr(val.v)
      [] val.t = "bool" -> IF val.v THEN <<"T", "r", "u", "e">>
                           ELSE <<"F", "a", "l", "s", "e">>
      [] val.t = "none" -> <<"N", "o", "n", "e">>
      [] val.t = "list" ->
            <<"[">> \o JoinSeq([i \in 1..Len(val.v) |-> PyRepr(val.v[i])],
                               <<",", " ">>) \o <<"]">>
      [] val.t = "dict" ->
            <<"{">> \o JoinSeq([i \in 1..Len(val.v) |->
                                   PyRepr(PStr(val.v[i][1])) \o Sep
                                       \o PyRepr(val.v[i][2])],
                               <<",", " ">>) \o <<"}">>

\* isinstance(val, int): bool is a subclass of int in Python
IsInstanceInt(val) == val.t = "int" \/ val.t = "bool"

\* isinstance(val, str), which QTreeWidgetItem requires of every label
IsInstanceStr(val) == val.t = "str"

\* ---------------------------------------------------- keys and labels
K_name == <<"n", "a", "m", "e">>
K_compatibilityLevel ==
    <<"c", "o", "m", "p", "a", "t", "i", "b", "i", "l", "i", "t", "y", "L", "e", "v", "e", "l">>
K_model == <<"m", "o", "d", "e", "l">>
K_Model == <<"M", "o", "d", "e", "l">>
K_Unnamed == <<"U", "n", "n", "a", "m", "e", "d">>

\* the six collections in the order load_tree adds them
Collections ==
    << <<"d", "a", "t", "a", "S", "o", "u", "r", "c", "e", "s">>,
       <<"t", "a", "b", "l", "e", "s">>,
       <<"r", "e", "l", "a", "t", "i", "o", "n", "s", "h", "i", "p", "s">>,
       <<"p", "e", "r", "s", "p", "e", "c", "t", "i", "v", "e", "s">>,
       <<"a", "n", "n", "o", "t", "a", "t", "i", "o", "n", "s">>,
       <<"t", "r", "a", "n", "s", "l", "a", "t", "i", "o", "n", "s">> >>

\* ------------------------------------------------------ the tree widget
\* A QTreeWidgetItem is [text, kids]; the QTreeWidget is the sequence of
\* its top-level items.  An item is named by its position: the child
\* indices from the widget down to it.
Node(text, kids) == [text |-> text, kids |-> kids]

\* the elements "for item in items" yields, for the iterable types
IterItems(items) ==
    CASE items.t = "list" -> items.v
      [] items.t = "dict" -> [i \in 1..Len(items.v) |-> PStr(items.v[i][1])]
      [] items.t = "str" -> [i \in 1..Len(items.v) |-> PStr(<<items.v[i]>>)]
      [] OTHER -> <<>>

IsIterable(items) == items.t \in {"list", "dict", "str"}

\* ItemLeaves with the leaves added in reverse order
ItemLeaves_Reversed(item) ==
    [i \in 1..Len(item.v) |->
        Node(item.v[Len(item.v) + 1 - i][1] \o Sep
                 \o PyStr(item.v[Len(item.v) + 1 - i][2]), <<>>)]

\* the inner loop of add_sublevel: one leaf per key/value pair
ItemLeaves(item) ==
    [i \in 1..Len(item.v) |->
        Node(item.v[i][1] \o Sep \o PyStr(item.v[i][2]), <<>>)]

\* the outer loop of add_sublevel from element i on; it stops, keeping the
\* item nodes made so far, at the first element that has no .get or whose
\* name is not a str
RECURSIVE AddItems(_, _, _)
AddItems(elems, i, acc) ==
    IF i > Len(elems) THEN [ok |-> TRUE, kids |-> acc]
    ELSE IF elems[i].t # "dict" THEN [ok |-> FALSE, kids |-> acc]
    ELSE LET label == DictGetOr(elems[i], K_name, PStr(K_Unnamed))
         IN IF ~IsInstanceStr(label) THEN [ok |-> FALSE, kids |-> acc]
            ELSE AddItems(elems, i + 1,
                          Append(acc, Node(label.v, ItemLeaves(elems[i]))))

add_sublevel(key, items) ==
    IF ~IsIterable(items) THEN [ok |-> FALSE, node |-> Node(key, <<>>)]
    ELSE LET r == AddItems(IterItems(items), 1, <<>>)
         IN [ok |-> r.ok, node |-> Node(key, r.kids)]

\* lines 78-83 of load_tree from collection c on; acc holds the children
\* of the "Model" node made so far
RECURSIVE AddGroups(_, _, _)
AddGroups(data, c, acc) ==
    IF c > Len(Collections) THEN [ok |-> TRUE, kids |-> acc]
    ELSE LET model == DictGetOr(data, K_model, PDict(<<>>))
         IN IF model.t # "dict" THEN [ok |-> FALSE, kids |-> acc]
            ELSE LET r == add_sublevel(Collections[c],
                              DictGetOr(model, Collections[c], PList(<<>>)))
                 IN IF r.ok THEN AddGroups(data, c + 1, Append(acc, r.node))
                    ELSE [ok |-> FALSE, kids |-> Append(acc, r.node)]

\* load_tree: the widget it leaves behind, and whether it returned (ok)
\* or raised part-way
load_tree(data) ==
    IF data.t # "dict" THEN [ok |-> FALSE, tree |-> <<Node(K_Model, <<>>)>>]
    ELSE LET leaves ==
                << Node(K_name \o Sep
                          \o PyStr(DictGetOr(data, K_name, PStr(<<>>))), <<>>),
                   Node(K_compatibilityLevel \o Sep
                          \o PyStr(DictGetOr(data, K_compatibilityLevel,
                                             PStr(<<>>))), <<>>) >>
             r == AddGroups(data, 1, leaves)
         IN [ok |-> r.ok, tree |-> <<Node(K_Model, r.kids)>>]

\* the positions of the items below the nodes in kids, each prefixed by pre
RECURSIVE PositionsOf(_, _)
PositionsOf(kids, pre) ==
    UNION {{Append(pre, i)} \cup PositionsOf(kids[i].kids, Append(pre, i)) :
              i \in 1..Len(kids)}

Positions(tr) == PositionsOf(tr, <<>>)

RECURSIVE NodeIn(_, _)
NodeIn(kids, pos) ==
    IF Len(pos) = 1 THEN kids[pos[1]]
    ELSE NodeIn(kids[pos[1]].kids, Tail(pos))

\* item.text(0)
TextAt(tr, pos) == NodeIn(tr, pos).text

\* item.setText(0, text)
RECURSIVE SetTextIn(_, _, _)
SetTextIn(kids, pos, text) ==
    IF Len(pos) = 1
    THEN [kids EXCEPT ![pos[1]] = Node(text, kids[pos[1]].kids)]
    ELSE [kids EXCEPT ![pos[1]] =
             Node(kids[pos[1]].text, SetTextIn(kids[pos[1]].kids, Tail(pos), text))]

\* get_json_path: the label heads of the item and of its ancestors, the
\* top-level item (which has no parent) left out
get_json_path(tr, pos) ==
    [n \in 1..(Len(pos) - 1) |-> SplitHead(TextAt(tr, SubSeq(pos, 1, n + 1)))]

\* ------------------------------------------- references into the document
\* Python reaches a nested container by reference; the model names it by
\* its location: the keys and (1-based) indices from bim_data down to it.
KeySeg(key) == [t |-> "key", v |-> key]
IdxSeg(n) == [t |-> "idx", v |-> n]

RECURSIVE At(_, _)
At(val, loc) ==
    IF loc = <<>> THEN val
    ELSE IF Head(loc).t = "key" THEN At(DictGet(val, Head(loc).v), Tail(loc))
    ELSE At(val.v[Head(loc).v], Tail(loc))

\* the document after an assignment to the location loc
RECURSIVE Put(_, _, _)
Put(val, loc, new) ==
    IF loc = <<>> THEN new
    ELSE IF Head(loc).t = "key"
    THEN DictSet(val, Head(loc).v,
                 Put(DictGet(val, Head(loc).v), Tail(loc), new))
    ELSE PList([val.v EXCEPT ![Head(loc).v] =
                   Put(val.v[Head(loc).v], Tail(loc), new)])

\* "key in container": "yes", "no", or "raise" (TypeError: not a container)
KeyIn(key, cont) ==
    CASE cont.t = "dict" -> IF DictHas(cont, key) THEN "yes" ELSE "no"
      [] cont.t = "list" ->
            IF \E i \in 1..Len(cont.v) : cont.v[i] = PStr(key)
            THEN "yes" ELSE "no"
      [] cont.t = "str" ->
            IF key = <<>> \/ Find(cont.v, key) # 0 THEN "yes" ELSE "no"
      [] OTHER -> "raise"

\* the loop of update_model_value over current_path[:-1], from the
\* container at loc: "ok" with the location reached, "err" when the
\* else branch reports the path, "raise" when a subscript raises
\* (IndexError for a digit key past the end of a list, KeyError for a
\* digit key on a dict, TypeError for a str key that is an element of a
\* list).  The loop starts at a dict and descends through dicts and lists
\* only: load_tree builds no node below a collection that is a str.
RECURSIVE Traverse(_, _, _)
Traverse(data, loc, keys) ==
    IF keys = <<>> THEN [res |-> "ok", loc |-> loc]
    ELSE LET key == Head(keys)
             cont == At(data, loc)
         IN IF IsDigit(key)
            THEN IF cont.t = "list" /\ DigitsVal(key) < Len(cont.v)
                 THEN Traverse(data, Append(loc, IdxSeg(DigitsVal(key) + 1)),
                               Tail(keys))
                 ELSE [res |-> "raise", loc |-> loc]
            ELSE IF KeyIn(key, cont) = "raise"
                 THEN [res |-> "raise", loc |-> loc]
            ELSE IF KeyIn(key, cont) = "no"
                 THEN [res |-> "err", loc |-> loc]
            ELSE IF cont.t = "dict"
                 THEN Traverse(data, Append(loc, KeySeg(key)), Tail(keys))
            ELSE [res |-> "raise", loc |-> loc]

\* CoerceInt without the int() conversion
CoerceInt_KeepsText(old, value) == PStr(value)

\* the value update_model_value stores over old (lines 133-139)
CoerceInt(old, value) ==
    IF IsInstanceInt(old)
    THEN IF IntParses(value) THEN PInt(IntOf(value)) ELSE PStr(value)
    ELSE PStr(value)

\* update_model_value that treats an absent last key as a path that cannot
\* be resolved, as the loop does for an absent intermediate key
update_model_value_ErrOnAbsent(data, path, value) ==
    IF data.t # "dict" \/ ~DictHas(data, K_model)
    THEN [res |-> "raise", data |-> data, target |-> <<>>]
    ELSE LET w == Traverse(data, <<KeySeg(K_model)>>,
                           SubSeq(path, 1, Len(path) - 1))
             last_key == path[Len(path)]
         IN IF w.res # "ok"
            THEN [res |-> w.res, data |-> data, target |-> <<>>]
            ELSE LET cont == At(data, w.loc)
                     loc == Append(w.loc, KeySeg(last_key))
                 IN CASE KeyIn(last_key, cont) = "raise" ->
                            [res |-> "raise", data |-> data, target |-> <<>>]
                      [] KeyIn(last_key, cont) = "no" ->
                            [res |-> "err", data |-> data, target |-> <<>>]
                      [] OTHER ->
                            IF cont.t # "dict"
                            THEN [res |-> "raise", data |-> data,
                                  target |-> <<>>]
                            ELSE [res |-> "ok",
                                  data |-> Put(data, loc,
                                               CoerceInt(At(data, loc), value)),
                                  target |-> loc]

\* update_model_value up to the label update: res is "ok" when line 142
\* is reached, "err" when the path error is shown, "raise" when an
\* exception leaves the handler; target is the location assigned to
update_model_value(data, path, value) ==
    IF data.t # "dict" \/ ~DictHas(data, K_model)
    THEN [res |-> "raise", data |-> data, target |-> <<>>]
    ELSE LET w == Traverse(data, <<KeySeg(K_model)>>,
                           SubSeq(path, 1, Len(path) - 1))
             last_key == path[Len(path)]
         IN IF w.res # "ok"
            THEN [res |-> w.res, data |-> data, target |-> <<>>]
            ELSE LET cont == At(data, w.loc)
                     loc == Append(w.loc, KeySeg(last_key))
                 IN CASE KeyIn(last_key, cont) = "raise" ->
                            [res |-> "raise", data |-> data, target |-> <<>>]
                      [] KeyIn(last_key, cont) = "no" ->
                            [res |-> "ok", data |-> data, target |-> <<>>]
                      [] OTHER ->
                            IF cont.t # "dict"
                            THEN [res |-> "raise", data |-> data,
                                  target |-> <<>>]
                            ELSE [res |-> "ok",
                                  data |-> Put(data, loc,
                                               CoerceInt(At(data, loc), value)),
                                  target |-> loc]

\* ------------------------------------------------ json.dump and json.load
\* The text of a file is the sequence of its JSON tokens [k, s]: k is the
\* kind ("p" punctuation, "str", "num", "lit") and s the token's characters.
\* The indentation json.dump(indent=4) writes is whitespace between tokens.
Tok(k, s) == [k |-> k, s |-> s]
P(c) == Tok("p", <<c>>)

RECURSIVE JoinToks(_, _)
JoinToks(parts, sep) ==
    IF parts = <<>> THEN <<>>
    ELSE IF Len(parts) = 1 THEN parts[1]
    ELSE parts[1] \o <<sep>> \o JoinToks(Tail(parts), sep)

\* json.dump(val, file, indent=4)
RECURSIVE json_dump(_)
json_dump(val) ==
    CASE val.t = "str" -> <<Tok("str", val.v)>>
      [] val.t = "int" -> <<Tok("num", IntStr(val.v))>>
      [] val.t = "bool" -> <<Tok("lit", IF val.v THEN <<"t", "r", "u", "e">>
                                        ELSE <<"f", "a", "l", "s", "e">>)>>
      [] val.t = "none" -> <<Tok("lit", <<"n", "u", "l", "l">>)>>
      [] val.t = "list" ->
            <<P("[")>> \o JoinToks([i \in 1..Len(val.v) |-> json_dump(val.v[i])],
                                   P(",")) \o <<P("]")>>
      [] val.t = "dict" ->
            <<P("{")>> \o JoinToks([i \in 1..Len(val.v) |->
                                       <<Tok("str", val.v[i][1]), P(":")>>
                                           \o json_dump(val.v[i][2])],
                                   P(",")) \o <<P("}")>>

\* a JSON number token that is an integer: -?(0|[1-9][0-9]*)
IsJsonInt(s) ==
    LET body == IF s # <<>> /\ Head(s) = "-" THEN Tail(s) ELSE s
    IN IsDigit(body) /\ (Len(body) = 1 \/ Head(body) # "0")

NoParse == [ok |-> FALSE, val |-> PNone, rest |-> <<>>]

\* DictPut that puts a new key in front: the decoded mapping loses the
\* key order of the file
DictPut_Prepends(d, key, val) ==
    IF DictHas(d, key) THEN DictSet(d, key, val)
    ELSE PDict(<< <<key, val>> >> \o d.v)

\* d[key] = val as the decoder does it: a repeated key keeps its first
\* position and takes the last value
DictPut(d, key, val) ==
    IF DictHas(d, key) THEN DictSet(d, key, val)
    ELSE PDict(Append(d.v, <<key, val>>))

\* the decoder: the value at the head of toks and the tokens after it
RECURSIVE ParseValue(_)
RECURSIVE ParseElems(_, _)
RECURSIVE ParseMembers(_, _)
ParseValue(toks) ==
    IF toks = <<>> THEN NoParse
    ELSE LET h == Head(toks)
         IN CASE h.k = "str" ->
                    [ok |-> TRUE, val |-> PStr(h.s), rest |-> Tail(toks)]
              [] h.k = "num" ->
                    IF IsJsonInt(h.s)
                    THEN [ok |-> TRUE, val |-> PInt(IntOf(h.s)),
                          rest |-> Tail(toks)]
                    ELSE NoParse
              [] h.k = "lit" ->
                    CASE h.s = <<"t", "r", "u", "e">> ->
                            [ok |-> TRUE, val |-> PBool(TRUE), rest |-> Tail(toks)]
                      [] h.s = <<"f", "a", "l", "s", "e">> ->
                            [ok |-> TRUE, val |-> PBool(FALSE), rest |-> Tail(toks)]
                      [] h.s = <<"n", "u", "l", "l">> ->
                            [ok |-> TRUE, val |-> PNone, rest |-> Tail(toks)]
                      [] OTHER -> NoParse
              [] h = P("[") ->
                    IF Len(toks) > 1 /\ toks[2] = P("]")
                    THEN [ok |-> TRUE, val |-> PList(<<>>),
                          rest |-> SubSeq(toks, 3, Len(toks))]
                    ELSE ParseElems(Tail(toks), <<>>)
              [] h = P("{") ->
                    IF Len(toks) > 1 /\ toks[2] = P("}")
                    THEN [ok |-> TRUE, val |-> PDict(<<>>),
                          rest |-> SubSeq(toks, 3, Len(toks))]
                    ELSE ParseMembers(Tail(toks), PDict(<<>>))
              [] OTHER -> NoParse

\* the elements of an array after "[" or ",", up to and including "]"
ParseElems(toks, acc) ==
    LET r == ParseValue(toks)
    IN IF ~r.ok \/ r.rest = <<>> THEN NoParse
       ELSE IF Head(r.rest) = P(",")
            THEN ParseElems(Tail(r.rest), Append(acc, r.val))
       ELSE IF Head(r.rest) = P("]")
            THEN [ok |-> TRUE, val |-> PList(Append(acc, r.val)),
                  rest |-> Tail(r.rest)]
       ELSE NoParse

\* the members of an object after "{" or ",", up to and including "}"
ParseMembers(toks, acc) ==
    IF Len(toks) < 3 \/ toks[1].k # "str" \/ toks[2] # P(":") THEN NoParse
    ELSE LET r == ParseValue(SubSeq(toks, 3, Len(toks)))
         IN IF ~r.ok \/ r.rest = <<>> THEN NoParse
            ELSE IF Head(r.rest) = P(",")
                 THEN ParseMembers(Tail(r.rest), DictPut(acc, toks[1].s, r.val))
            ELSE IF Head(r.rest) = P("}")
                 THEN [ok |-> TRUE, val |-> DictPut(acc, toks[1].s, r.val),
                       rest |-> Tail(r.rest)]
            ELSE NoParse

\* json.load(file): ok is FALSE when it raises JSONDecodeError
json_load(toks) ==
    LET r == ParseValue(toks)
    IN IF r.ok /\ r.rest = <<>> THEN [ok |-> TRUE, val |-> r.val]
       ELSE [ok |-> FALSE, val |-> PNone]

\* ------------------------------------------------- documents and texts
W_Sales == <<"S", "a", "l", "e", "s">>
W_rows == <<"r", "o", "w", "s">>
W_hidden == <<"h", "i", "d", "d", "e", "n">>
W_columns == <<"c", "o", "l", "u", "m", "n", "s">>
W_note == <<"n", "o", "t", "e">>
W_id == <<"i", "d">>
W_abc == <<"a", "b", "c">>

\* the six collections, all empty but those given in the function with
WithCollections(with) ==
    [c \in 1..Len(Collections) |->
        IF c \in DOMAIN with THEN <<Collections[c], PList(with[c])>>
        ELSE <<Collections[c], PList(<<>>)>>]

BimOf(name, level, model) ==
    PDict(<< <<K_name, PStr(name)>>,
             <<K_compatibilityLevel, PInt(level)>>,
             <<K_model, PDict(model)>> >>)

\* tables[0].name == "Sales"; an element without a name; an element whose
\* name holds ": "
DocSales ==
    BimOf(<<"M">>, 1200,
          WithCollections(
              2 :> << PDict(<< <<K_name, PStr(W_Sales)>>,
                               <<W_rows, PInt(42)>> >>) >>
              @@ 4 :> << PDict(<< <<W_id, PInt(3)>> >>) >>
              @@ 5 :> << PDict(<< <<K_name, PStr(<<"a", ":", " ", "b">>)>> >>) >>))

\* elements whose names are digits: "1" at index 0, "7" at index 1 (past
\* the end); no translations key
DocDigits ==
    BimOf(<<"D">>, 1400,
          SubSeq(WithCollections(
              2 :> << PDict(<< <<K_name, PStr(<<"1">>)>>,
                               <<W_rows, PInt(42)>> >>),
                      PDict(<< <<K_name, PStr(<<"7">>)>>,
                               <<W_rows, PInt(5)>> >>) >>), 1, 5))

\* an element named "0" at index 0 that holds a boolean, a null and a
\* nested list; a name key inside the model mapping
DocKinds ==
    BimOf(<<"K">>, 42,
          << <<K_name, PStr(<<"i", "n">>)>> >> \o
          WithCollections(
              1 :> << PDict(<< <<K_name, PStr(<<"0">>)>>,
                               <<W_hidden, PBool(TRUE)>>,
                               <<W_note, PNone>>,
                               <<W_columns, PList(<<PStr(<<"a">>)>>)>> >>) >>))

\* the second table's name is an int, which QTreeWidgetItem rejects
DocIntName ==
    BimOf(<<"N">>, 1200,
          WithCollections(2 :> << PDict(<< <<K_name, PStr(<<"A">>)>>,
                                           <<W_rows, PInt(1)>> >>),
                                  PDict(<< <<K_name, PInt(5)>> >>) >>))

Docs == {DocSales, DocDigits, DocKinds, DocIntName}

\* a file that json.load rejects
Malformed == <<P("{"), Tok("str", K_name)>>

\* the file the user may pick: readable or not, with or without a
\* byte-order mark, holding a document or malformed text
Files ==
    {[readable |-> TRUE, bom |-> FALSE, toks |-> json_dump(d)] : d \in Docs}
    \cup {[readable |-> TRUE, bom |-> TRUE, toks |-> json_dump(DocSales)],
          [readable |-> TRUE, bom |-> FALSE, toks |-> Malformed],
          [readable |-> FALSE, bom |-> FALSE, toks |-> json_dump(DocSales)]}

\* the texts the user types into the line edit
CommitTexts == {<<"7">>, W_abc, <<"0", "7">>}

\* ------------------------------------------------------------- the state
VARIABLES
    disk,          \* the file behind the open dialog: [readable, bom, toks]
    dialog,        \* what getOpenFileName will return: "file" or "cancel"
    pc,            \* "start", "built" (__init__ returned), "exec", "dead"
    closed,        \* self.close() was called
    visible,       \* the window is shown
    file_path,     \* self.file_path ("" for None)
    bim_data,      \* self.bim_data (PNone for None)
    tree,          \* self.tree
    form,          \* the rows of self.form_layout: [key, text]
    current_key,   \* self.current_key (<<>> while unset)
    current_item,  \* self.current_item, as a position (<<>> while unset)
    current_path,  \* self.current_path (<<>> while unset)
    msg,           \* the message box the last operation showed, or "none"
    lastOp,        \* the last operation and its argument: [op, arg]
    target,        \* the location the last operation assigned to (<<>>: none)
    nCommits       \* the commits made so far

vars == <<disk, dialog, pc, closed, visible, file_path, bim_data, tree, form,
          current_key, current_item, current_path, msg, lastOp, target,
          nCommits>>

PathName == "model.bim"

Init ==
    /\ disk \in Files
    /\ dialog \in {"file", "cancel"}
    /\ pc = "start"
    /\ closed = FALSE
    /\ visible = FALSE
    /\ file_path = ""
    /\ bim_data = PNone
    /\ tree = <<>>
    /\ form = <<>>
    /\ current_key = <<>>
    /\ current_item = <<>>
    /\ current_path = <<>>
    /\ msg = "none"
    /\ lastOp = [op |-> "none", arg |-> <<>>]
    /\ target = <<>>
    /\ nCommits = 0

\* load_bim_file: the attributes it leaves and the message it shows
load_bim_file ==
    IF dialog = "cancel"
    THEN [file_path |-> "", bim_data |-> PNone, tree |-> <<>>,
          msg |-> "No File Selected", closed |-> TRUE]
    ELSE IF ~disk.readable
    THEN [file_path |-> PathName, bim_data |-> PNone, tree |-> <<>>,
          msg |-> "unexpected error", closed |-> TRUE]
    ELSE LET j == json_load(disk.toks)
             t == load_tree(j.val)
         IN IF ~j.ok
            THEN [file_path |-> PathName, bim_data |-> PNone, tree |-> <<>>,
                  msg |-> "Failed to parse JSON", closed |-> TRUE]
            ELSE IF ~t.ok
            THEN [file_path |-> PathName, bim_data |-> j.val, tree |-> t.tree,
                  msg |-> "unexpected error", closed |-> TRUE]
            ELSE [file_path |-> PathName, bim_data |-> j.val, tree |-> t.tree,
                  msg |-> "File Loaded", closed |-> FALSE]

\* AuroraTabularModeller(): __init__ runs load_bim_file, then connects the
\* click handler and the save action whatever the load did
Construct ==
    /\ pc = "start"
    /\ LET r == load_bim_file
       IN /\ file_path' = r.file_path
          /\ bim_data' = r.bim_data
          /\ tree' = r.tree
          /\ msg' = r.msg
          /\ closed' = r.closed
    /\ pc' = "built"
    /\ lastOp' = [op |-> "load", arg |-> <<>>]
    /\ UNCHANGED <<disk, dialog, visible, form, current_key, current_item,
                   current_path, target, nCommits>>

\* main: window.show() and app.exec_(), reached after every __init__
Show ==
    /\ pc = "built"
    /\ visible' = TRUE
    /\ pc' = "exec"
    /\ lastOp' = [op |-> "show", arg |-> <<>>]
    /\ msg' = "none"
    /\ UNCHANGED <<disk, dialog, closed, file_path, bim_data, tree, form,
                   current_key, current_item, current_path, target,
                   nCommits>>

\* on_tree_item_click without the loop that removes the widgets of the
\* form: the field of the new selection is added to those already there
Select_KeepsOldFields(pos) ==
    /\ pc = "exec"
    /\ LET text == TextAt(tree, pos)
       IN IF HasSep(text)
          THEN /\ current_key' = Strip(SplitHead(text))
               /\ current_item' = pos
               /\ current_path' = get_json_path(tree, pos)
               /\ form' = Append(form, [key |-> Strip(SplitHead(text)),
                                        text |-> Strip(SplitRest(text))])
          ELSE UNCHANGED <<form, current_key, current_item, current_path>>
    /\ lastOp' = [op |-> "select", arg |-> <<>>]
    /\ msg' = "none"
    /\ target' = <<>>
    /\ UNCHANGED <<disk, dialog, pc, closed, visible, file_path, bim_data,
                   tree, nCommits>>

\* on_tree_item_click(item, 0) for the item at pos
Select(pos) ==
    /\ pc = "exec"
    /\ LET text == TextAt(tree, pos)
       IN IF HasSep(text)
          THEN /\ current_key' = Strip(SplitHead(text))
               /\ current_item' = pos
               /\ current_path' = get_json_path(tree, pos)
               /\ form' = <<[key |-> Strip(SplitHead(text)),
                             text |-> Strip(SplitRest(text))]>>
          ELSE /\ form' = <<>>
               /\ UNCHANGED <<current_key, current_item, current_path>>
    /\ lastOp' = [op |-> "select", arg |-> <<>>]
    /\ msg' = "none"
    /\ target' = <<>>
    /\ UNCHANGED <<disk, dialog, pc, closed, visible, file_path, bim_data,
                   tree, nCommits>>

\* editingFinished of the line edit: update_model_value(label.text()).  An
\* exception that leaves the slot either aborts the process (pc "dead") or
\* is printed and dropped (pc stays "exec"), by the PyQt5 version.
Commit(value) ==
    /\ pc = "exec"
    /\ form # <<>>
    /\ nCommits < MaxCommits
    /\ LET r == update_model_value(bim_data, current_path, value)
       IN /\ bim_data' = r.data
          /\ target' = r.target
          /\ tree' = IF r.res = "ok"
                     THEN SetTextIn(tree, current_item,
                                    current_key \o Sep \o value)
                     ELSE tree
          /\ msg' = IF r.res = "err" THEN "Unable to update the path"
                    ELSE "none"
          /\ pc' \in IF r.res = "raise" THEN {"dead", "exec"} ELSE {"exec"}
    /\ lastOp' = [op |-> "commit", arg |-> value]
    /\ nCommits' = nCommits + 1
    /\ UNCHANGED <<disk, dialog, closed, visible, file_path, form,
                   current_key, current_item, current_path>>

\* save_bim_file that reports success without writing the document
save_bim_file_NoDump(fs) ==
    IF file_path = ""
    THEN [disk |-> disk, msg |-> "No file path specified", fs |-> "nopath"]
    ELSE CASE fs = "ok" -> [disk |-> disk, msg |-> "File Saved", fs |-> fs]
           [] fs = "open" ->
                 [disk |-> disk, msg |-> "Failed to save file", fs |-> fs]
           [] fs = "write" ->
                 [disk |-> [readable |-> TRUE, bom |-> FALSE,
                            toks |-> SubSeq(json_dump(bim_data), 1, 1)],
                  msg |-> "Failed to save file", fs |-> fs]

\* save_bim_file, with what the file system does: "ok", "open" (open
\* fails, the file is untouched) or "write" (the write fails part-way and
\* leaves a truncated file): the file and the message box it leaves
save_bim_file(fs) ==
    IF file_path = ""
    THEN [disk |-> disk, msg |-> "No file path specified", fs |-> "nopath"]
    ELSE CASE fs = "ok" ->
                 [disk |-> [readable |-> TRUE, bom |-> FALSE,
                            toks |-> json_dump(bim_data)],
                  msg |-> "File Saved", fs |-> fs]
           [] fs = "open" ->
                 [disk |-> disk, msg |-> "Failed to save file", fs |-> fs]
           [] fs = "write" ->
                 [disk |-> [readable |-> TRUE, bom |-> FALSE,
                            toks |-> SubSeq(json_dump(bim_data), 1, 1)],
                  msg |-> "Failed to save file", fs |-> fs]

\* Save whose except branch also calls self.close(), as the except
\* branches of load_bim_file do: the last window closes and the
\* application quits
Save_ClosesOnError(fs) ==
    /\ pc = "exec"
    /\ LET r == save_bim_file(fs)
       IN /\ disk' = r.disk
          /\ msg' = r.msg
          /\ lastOp' = [op |-> "save", arg |-> <<r.fs>>]
          /\ closed' = (closed \/ r.msg = "Failed to save file")
          /\ pc' = IF r.msg = "Failed to save file" THEN "dead" ELSE pc
    /\ UNCHANGED <<dialog, visible, file_path, bim_data, tree,
                   form, current_key, current_item, current_path, target,
                   nCommits>>

\* the save action (Ctrl+S): save_bim_file touches the file and shows a
\* message, nothing else
Save(fs) ==
    /\ pc = "exec"
    /\ LET r == save_bim_file(fs)
       IN /\ disk' = r.disk
          /\ msg' = r.msg
          /\ lastOp' = [op |-> "save", arg |-> <<r.fs>>]
    /\ target' = <<>>
    /\ UNCHANGED <<dialog, pc, closed, visible, file_path, bim_data, tree,
                   form, current_key, current_item, current_path,
                   nCommits>>

Next ==
    \/ Construct
    \/ Show
    \/ \E pos \in Positions(tree) : Select(pos)
    \/ \E value \in CommitTexts \cup {form[i].text : i \in DOMAIN form} :
          Commit(value)
    \/ \E fs \in {"ok", "open", "write"} : Save(fs)

Spec == Init /\ [][Next]_vars

\* --------------------------------------- what each node was built from
\* the load succeeded: load_tree returned and close() was not called
Loaded == pc # "start" /\ ~closed

\* load_bim_file showed an error for the file the user picked
LoadFailed == pc # "start" /\ closed /\ file_path # ""

RECURSIVE Exists(_, _)
Exists(val, loc) ==
    IF loc = <<>> THEN TRUE
    ELSE IF Head(loc).t = "key"
    THEN val.t = "dict" /\ DictHas(val, Head(loc).v)
         /\ Exists(DictGet(val, Head(loc).v), Tail(loc))
    ELSE val.t = "list" /\ Head(loc).v <= Len(val.v)
         /\ Exists(val.v[Head(loc).v], Tail(loc))

\* the location of the value load_tree and add_sublevel read to build the
\* node at pos (pos is below the "Model" node): a top-level key, a
\* collection, an element of it, or a key of the element
SourceOf(data, pos) ==
    LET group == <<KeySeg(K_model), KeySeg(Collections[pos[2] - 2])>>
        elem == Append(group, IdxSeg(pos[3]))
    IN CASE Len(pos) = 2 /\ pos[2] = 1 -> <<KeySeg(K_name)>>
         [] Len(pos) = 2 /\ pos[2] = 2 -> <<KeySeg(K_compatibilityLevel)>>
         [] Len(pos) = 2 /\ pos[2] > 2 -> group
         [] Len(pos) = 3 -> elem
         [] Len(pos) = 4 -> Append(elem, KeySeg(At(data, elem).v[pos[4]][1]))

\* the value read there; a collection the model mapping lacks reads as []
SourceValue(data, pos) ==
    IF Exists(data, SourceOf(data, pos)) THEN At(data, SourceOf(data, pos))
    ELSE PList(<<>>)

\* the leaf of a collection element: Model / group / item / leaf
IsItemLeaf(pos) == Len(pos) = 4

\* ------------------------------------------------------------------ C1
\* C1: after a successful load, selecting the leaf built for key k of
\* element i of a collection, whose value is a string, and committing the
\* text t leaves that document value equal to the string t and the leaf's
\* label equal to "k: t".
C1_CommitWritesSelectedLeaf ==
    [][(/\ lastOp'.op = "commit"
        /\ Loaded
        /\ IsItemLeaf(current_item)
        /\ At(bim_data, SourceOf(bim_data, current_item)).t = "str")
       => (/\ At(bim_data', SourceOf(bim_data, current_item))
                 = PStr(lastOp'.arg)
           /\ TextAt(tree', current_item)
                 = Last(SourceOf(bim_data, current_item)).v \o Sep
                       \o lastOp'.arg)]_vars

\* ------------------------------------------------------------------ C2
\* C2: right after the tree is built from a loaded document, the path
\* get_json_path computes for every node below "Model" replays from the
\* document root, by the key and index lookups of the commit loop, to the
\* value the node was built from.
C2_PathsResolveToSource ==
    (Loaded /\ pc = "built")
    => \A pos \in Positions(tree) :
          Len(pos) >= 2 =>
             LET w == Traverse(bim_data, <<>>, get_json_path(tree, pos))
             IN /\ w.res = "ok"
                /\ At(bim_data, w.loc) = SourceValue(bim_data, pos)

\* ------------------------------------------------------------------ C3
\* C3: a commit changes no document location other than the one the
\* selected leaf was built from: the document after the commit is the
\* document before it with at most that one location assigned.
C3_OnlySelectedLeafChanges ==
    [][lastOp'.op = "commit"
       => LET src == SourceOf(bim_data, current_item)
          IN \/ bim_data' = bim_data
             \/ /\ Exists(bim_data, src)
                /\ Exists(bim_data', src)
                /\ bim_data' = Put(bim_data, src, At(bim_data', src))]_vars

\* ------------------------------------------------------------------ C4
\* C4: when a commit assigns over a value that is an integer, the value
\* stored is the integer the text parses to when int(text) succeeds and
\* the text as a string otherwise; "7" gives 7 and "abc" gives "abc".
C4_IntegerWriteIsTypePreserving ==
    [][(/\ lastOp'.op = "commit"
        /\ target' # <<>>
        /\ At(bim_data, target').t = "int")
       => LET new == At(bim_data', target')
              text == lastOp'.arg
          IN /\ IF IntParses(text) THEN new = PInt(IntOf(text))
                ELSE new = PStr(text)
             /\ text = <<"7">> => new = PInt(7)
             /\ text = W_abc => new = PStr(W_abc)]_vars

\* the row count of the second table of DocDigits, an integer until a
\* text is stored over it
RowsOfSecondTable ==
    <<KeySeg(K_model), KeySeg(Collections[2]), IdxSeg(2), KeySeg(W_rows)>>

C4_Witness ==
    /\ lastOp = [op |-> "commit", arg |-> <<"7">>]
    /\ target = RowsOfSecondTable
    /\ At(bim_data, target) = PInt(7)

\* ------------------------------------------------------------------ C5
\* C5: a commit whose path has an intermediate segment that does not
\* resolve (a missing key or an index past the end) shows the path error,
\* leaves the document and the tree unchanged, and leaves the application
\* running.
C5_PathFailureIsRecovered ==
    [][(/\ lastOp'.op = "commit"
        /\ Traverse(bim_data, <<KeySeg(K_model)>>,
                    SubSeq(current_path, 1, Len(current_path) - 1)).res # "ok")
       => (/\ msg' = "Unable to update the path"
           /\ bim_data' = bim_data
           /\ tree' = tree
           /\ pc' = "exec")]_vars

\* ------------------------------------------------------------------ C6
\* C6: once load_bim_file has ended in a parse error or an I/O error, no
\* select, commit or save is processed and the file is not overwritten.
C6_LoadFailureIsFatal ==
    (LoadFailed /\ bim_data = PNone)
    => (lastOp.op \in {"load", "show"} /\ disk \in Files)

\* ------------------------------------------------------------------ C7
\* C7: whenever load_bim_file has reported an error, bim_data is unset and
\* the tree holds no node built from the file.
C7_LoadIsAtomic ==
    LoadFailed
    => (bim_data = PNone /\ tree \in {<<>>, <<Node(K_Model, <<>>)>>})

\* ------------------------------------------------------------------ C8
\* C8: a save that fails to open or to write the file reports the error
\* and leaves the document, the tree and the edit session as they were,
\* with the application still running (select, commit and save remain
\* possible).
C8_FailedSaveKeepsMemory ==
    [][(lastOp'.op = "save" /\ lastOp'.arg \in {<<"open">>, <<"write">>})
       => (/\ msg' = "Failed to save file"
           /\ bim_data' = bim_data
           /\ tree' = tree
           /\ form' = form
           /\ <<current_key, current_item, current_path>>'
                 = <<current_key, current_item, current_path>>
           /\ file_path' = file_path
           /\ pc' = "exec")]_vars

C8_Witness ==
    /\ lastOp = [op |-> "save", arg |-> <<"write">>]
    /\ msg = "Failed to save file"
    /\ nCommits > 0
    /\ form # <<>>
    /\ bim_data.t = "dict"

\* ------------------------------------------------------------------ C9
\* C9: right after a successful save the file holds the serialization of
\* the document in memory, with every value the commits stored in it.
C9_SavedFileIsCurrentDocument ==
    (lastOp = [op |-> "save", arg |-> <<"ok">>])
    => /\ disk.toks = json_dump(bim_data)
       /\ ~disk.bom

C9_Witness ==
    /\ lastOp = [op |-> "save", arg |-> <<"ok">>]
    /\ nCommits > 0
    /\ Exists(bim_data, RowsOfSecondTable)
    /\ At(bim_data, RowsOfSecondTable) = PStr(W_abc)
    /\ disk.toks = json_dump(bim_data)

\* ----------------------------------------------------------------- C10
\* C10: the tree built from a loaded document has the single root "Model"
\* whose children are the leaf "name: v", the leaf "compatibilityLevel: v"
\* and one group per collection in the fixed order; a group has one item
\* per element in sequence order, labelled with the element's name or
\* "Unnamed"; an item has one "key: value" leaf per pair in mapping order.
C10_TreeMirrorsDocument ==
    (Loaded /\ nCommits = 0)
    => LET model == DictGetOr(bim_data, K_model, PDict(<<>>))
           elems(c) == DictGetOr(model, Collections[c], PList(<<>>)).v
           top == tree[1].kids
       IN /\ Len(tree) = 1
          /\ tree[1].text = K_Model
          /\ Len(top) = 2 + Len(Collections)
          /\ top[1] = Node(K_name \o Sep \o PyStr(DictGet(bim_data, K_name)),
                           <<>>)
          /\ top[2] = Node(K_compatibilityLevel \o Sep
                              \o PyStr(DictGet(bim_data, K_compatibilityLevel)),
                           <<>>)
          /\ \A c \in 1..Len(Collections) :
                /\ top[2 + c].text = Collections[c]
                /\ Len(top[2 + c].kids) = Len(elems(c))
                /\ \A i \in 1..Len(elems(c)) :
                      LET item == top[2 + c].kids[i]
                          elem == elems(c)[i]
                      IN /\ item.text = IF DictHas(elem, K_name)
                                        THEN DictGet(elem, K_name).v
                                        ELSE K_Unnamed
                         /\ Len(item.kids) = Len(elem.v)
                         /\ \A j \in 1..Len(elem.v) :
                               item.kids[j] =
                                  Node(elem.v[j][1] \o Sep
                                          \o PyStr(elem.v[j][2]), <<>>)
          /\ bim_data = DocSales =>
                TextAt(tree, <<1, 4, 1, 2>>)
                   = <<"r", "o", "w", "s", ":", " ", "4", "2">>

C10_Witness ==
    /\ Loaded
    /\ nCommits = 0
    /\ pc = "exec"
    /\ bim_data = DocSales
    /\ TextAt(tree, <<1, 4, 1>>) = W_Sales
    /\ TextAt(tree, <<1, 6, 1>>) = K_Unnamed
    /\ Len(NodeIn(tree, <<1, 4, 1>>).kids) = 2

\* ----------------------------------------------------------------- C11
\* model.dataSources[0].hidden, a boolean of DocKinds
HiddenOfFirstSource ==
    <<KeySeg(K_model), KeySeg(Collections[1]), IdxSeg(1), KeySeg(W_hidden)>>

\* C11: the document in memory, as loaded or after any commits, survives
\* the round trip through the file: what json.load reads from the text
\* json.dump writes for it is the document itself, with the same keys in
\* the same order, the same nesting and the same scalar types; and the
\* file a successful save has left loads back to the document in memory.
C11_SaveLoadRoundTrip ==
    /\ json_load(json_dump(bim_data)) = [ok |-> TRUE, val |-> bim_data]
    /\ lastOp = [op |-> "save", arg |-> <<"ok">>]
          => /\ disk.readable
             /\ ~disk.bom
             /\ json_load(disk.toks) = [ok |-> TRUE, val |-> bim_data]

\* a save after a commit that turned a boolean into an integer
C11_Witness ==
    /\ lastOp = [op |-> "save", arg |-> <<"ok">>]
    /\ nCommits > 0
    /\ Exists(bim_data, HiddenOfFirstSource)
    /\ At(bim_data, HiddenOfFirstSource) = PInt(7)
    /\ json_load(disk.toks).val = bim_data

\* ----------------------------------------------------------------- C12
\* the top-level leaves of the tree: "name: ..." and
\* "compatibilityLevel: ..." under the "Model" node
IsTopLevelLeaf(pos) == Len(pos) = 2 /\ pos[2] \in {1, 2}

\* C12: after a successful load, a commit made on a top-level leaf (name
\* or compatibilityLevel) is applied with a path of the single segment that is the leaf's key, it
\* makes the committed text (as an integer over an integer, when it
\* parses) the value of that key in the root mapping of the document, and
\* it changes nothing inside the nested "model" mapping.
C12_TopLevelLeafWritesRoot ==
    [][(lastOp'.op = "commit" /\ Loaded /\ IsTopLevelLeaf(current_item))
       => LET text == lastOp'.arg
              key == current_path[1]
              old == At(bim_data, <<KeySeg(key)>>)
          IN /\ Len(current_path) = 1
             /\ key \in {K_name, K_compatibilityLevel}
             /\ At(bim_data', <<KeySeg(key)>>)
                    = IF old.t = "int" /\ IntParses(text)
                      THEN PInt(IntOf(text)) ELSE PStr(text)
             /\ DictGet(bim_data', K_model) = DictGet(bim_data, K_model)]_vars

\* ----------------------------------------------------------------- C13
\* C13: a commit that assigns over a value that is a string, a boolean or
\* null stores the committed text itself, as a string, whatever the text
\* is (a text that parses as an integer included).
C13_NonIntegerTakesTextVerbatim ==
    [][(/\ lastOp'.op = "commit"
        /\ target' # <<>>
        /\ At(bim_data, target').t \in {"str", "bool", "none"})
       => At(bim_data', target') = PStr(lastOp'.arg)]_vars

\* ----------------------------------------------------------------- C14
\* every location of val: the root, and below it the locations of the
\* values of a mapping and of the elements of a sequence
RECURSIVE Locations(_)
Locations(val) ==
    {<<>>} \cup
    CASE val.t = "dict" ->
            UNION {{<<KeySeg(val.v[i][1])>> \o l : l \in Locations(val.v[i][2])}
                   : i \in 1..Len(val.v)}
      [] val.t = "list" ->
            UNION {{<<IdxSeg(i)>> \o l : l \in Locations(val.v[i])}
                   : i \in 1..Len(val.v)}
      [] OTHER -> {}

IsContainer(val) == val.t \in {"list", "dict"}

\* C14: a commit replaces no container: every location of the document
\* that holds a sequence or a mapping before the commit holds a sequence
\* or a mapping of the same kind and size after it, and the value a commit
\* assigns over is a scalar.
C14_NoContainerReplacement ==
    [][lastOp'.op = "commit"
       => /\ \A loc \in Locations(bim_data) :
                IsContainer(At(bim_data, loc))
                   => /\ Exists(bim_data', loc)
                      /\ At(bim_data', loc).t = At(bim_data, loc).t
                      /\ Len(At(bim_data', loc).v) = Len(At(bim_data, loc).v)
          /\ target' # <<>> => ~IsContainer(At(bim_data, target'))]_vars

\* ----------------------------------------------------------------- C15
\* C15: after a commit that assigned a value in the document, the label
\* of the selected leaf is its key, ": " and the display text of the value
\* now stored at the assigned location (str of it: "7" for the integer 7,
\* however the user spelled it).
C15_LabelShowsStoredValue ==
    [][(lastOp'.op = "commit" /\ target' # <<>>)
       => TextAt(tree', current_item)
             = current_key \o Sep \o PyStr(At(bim_data', target'))]_vars

\* ----------------------------------------------------------------- C16
\* the path of the session resolves up to its last segment, which is not
\* a key of the container reached: the loop of update_model_value ends
\* normally and "last_key in model" is False
AbsentFinalKey ==
    /\ bim_data.t = "dict"
    /\ DictHas(bim_data, K_model)
    /\ current_path # <<>>
    /\ LET w == Traverse(bim_data, <<KeySeg(K_model)>>,
                         SubSeq(current_path, 1, Len(current_path) - 1))
       IN /\ w.res = "ok"
          /\ KeyIn(Last(current_path), At(bim_data, w.loc)) = "no"

\* C16: a commit whose path resolves up to a last segment that is not a
\* key of the container reached leaves the document as it was, shows no
\* message and raises nothing, and changes the tree in one place only:
\* the label of the selected node becomes its key, ": " and the committed
\* text.  The file, the form and the session are untouched.
C16_AbsentFinalKeyChangesLabelOnly ==
    [][(lastOp'.op = "commit" /\ AbsentFinalKey)
       => /\ bim_data' = bim_data
          /\ target' = <<>>
          /\ msg' = "none"
          /\ pc' = "exec"
          /\ Positions(tree') = Positions(tree)
          /\ TextAt(tree', current_item) = current_key \o Sep \o lastOp'.arg
          /\ \A pos \in Positions(tree) \ {current_item} :
                TextAt(tree', pos) = TextAt(tree, pos)
          /\ UNCHANGED <<disk, closed, visible, file_path, form, current_key,
                         current_item, current_path>>]_vars

\* after such a commit of "abc" on the top-level name leaf
C16_Witness ==
    /\ lastOp = [op |-> "commit", arg |-> W_abc]
    /\ Loaded
    /\ AbsentFinalKey
    /\ current_item = <<1, 1>>
    /\ TextAt(tree, current_item) = K_name \o Sep \o W_abc
    /\ At(bim_data, <<KeySeg(K_name)>>) # PStr(W_abc)
    /\ msg = "none"

\* ----------------------------------------------------------------- C17
\* the nodes built from a key/value pair: the two top-level leaves and
\* the leaves of the collection elements
IsLeaf(pos) == IsTopLevelLeaf(pos) \/ IsItemLeaf(pos)

\* C17: an editable field exists only for a leaf built from a key/value
\* pair: the node of the field is never the "Model" node, a group node or
\* an item node, whatever the names of the elements are; and every such
\* leaf opens a field when selected (its label holds ": ").
C17_OnlyLeavesAreEditable ==
    /\ form # <<>> => IsLeaf(current_item)
    /\ pc = "exec"
          => \A pos \in Positions(tree) :
                IsLeaf(pos) => HasSep(TextAt(tree, pos))

\* ----------------------------------------------------------------- C18
\* C18: the form holds at most one editable field, and that field
\* belongs to the session: whenever a step changes the form or a label,
\* the key of the field is current_key, current_path is the path of the
\* node current_item and current_key its last segment, stripped.  Only a selection changes the
\* session, and after the load only a selection or a commit changes the
\* form, the labels or the document.  A selection writes nothing to the document or to
\* a label, and the field it leaves is filled from the label of the node
\* selected, so nothing of the field it removed is kept.  A commit needs a
\* field, keeps the field and the session, changes no label but that of
\* current_item (to current_key, ": " and the committed text) and no
\* location of the document but one whose key is the last segment of
\* current_path.
C18_OneFieldUnderEdit ==
    [][/\ Len(form') <= 1
       /\ (form' # <<>> /\ (form' # form \/ tree' # tree))
             => /\ form'[1].key = current_key'
                /\ current_path' = get_json_path(tree', current_item')
                /\ current_key' = Strip(Last(current_path'))
       /\ lastOp'.op # "select"
             => UNCHANGED <<current_key, current_item, current_path>>
       /\ lastOp'.op \notin {"load", "select", "commit"}
             => UNCHANGED <<form, tree, bim_data>>
       /\ lastOp'.op = "select"
             => /\ bim_data' = bim_data
                /\ tree' = tree
                /\ form' # <<>>
                      => form'[1].text
                            = Strip(SplitRest(TextAt(tree, current_item')))
       /\ lastOp'.op = "commit"
             => /\ form # <<>>
                /\ form' = form
                /\ Positions(tree') = Positions(tree)
                /\ \A pos \in Positions(tree) \ {current_item} :
                      TextAt(tree', pos) = TextAt(tree, pos)
                /\ TextAt(tree', current_item)
                      \in {TextAt(tree, current_item),
                           current_key \o Sep \o lastOp'.arg}
                /\ IF target' = <<>> THEN bim_data' = bim_data
                   ELSE /\ Last(target').v = Last(current_path)
                        /\ bim_data' = Put(bim_data, target',
                                           At(bim_data', target'))]_vars

\* a commit made through the one field of the form, that of a rows leaf:
\* it assigned to a rows key and relabelled the selected leaf
C18_Witness ==
    /\ lastOp.op = "commit"
    /\ Len(form) = 1
    /\ form[1].key = W_rows
    /\ current_key = W_rows
    /\ target # <<>>
    /\ Last(target).v = W_rows
    /\ TextAt(tree, current_item) = W_rows \o Sep \o lastOp.arg

====
